---- MODULE Spec2Model ----
(***************************************************************************)
(* j2pp: the key lexer (split_dot_or_dict_syntax), the multi-value helper  *)
(* (_add) and the define-list builder (parse_defines) of src/j2pp.py.      *)
(*                                                                         *)
(* Python strings are modelled as tuples of one-character strings, so that *)
(* the lexer's character scan and the split at '=' are computed, not       *)
(* assumed.  A Python value is a record [kind, val]: kind is the Python    *)
(* type ("str", "int", "list", "dict") that the code inspects with         *)
(* type(x), val is the string, the list of values or the key->value map.   *)
(***************************************************************************)
EXTENDS Integers, Sequences, FiniteSets, TLC

VARIABLES
    defs,       \* parse_defines: the elements of `defs` consumed so far
    result,     \* parse_defines: the local dict `result`
    lengthen,   \* parse_defines: argument `lengthen`
    shorten,    \* parse_defines: argument `shorten`
    logger,     \* parse_defines: argument `logger` ("logging" or "None")
    log,        \* messages the logger received during the last iteration
    pc,         \* "loop" | "returned" | "raised" | "lex" | "lexed"
    exc,        \* the exception that left the function, or "none"
    expr,       \* split_dot_or_dict_syntax: argument `expr`
    ks          \* split_dot_or_dict_syntax: returned list

vars == <<defs, result, lengthen, shorten, logger, log, pc, exc, expr, ks>>

-----------------------------------------------------------------------------
(* Bounds *)

MaxDefs == 3        \* longest define list handed to parse_defines
MaxKeyLen == 4      \* longest key handed to the lexer on its own

-----------------------------------------------------------------------------
(* Python values *)

PyStr(s) == [kind |-> "str", val |-> s]
PyList(items) == [kind |-> "list", val |-> items]
PyDict(d) == [kind |-> "dict", val |-> d]

NoEntries == [x \in {} |-> PyStr(<<>>)]

\* d[key] = val on a dict
Put(d, key, val) == [x \in (DOMAIN d) \cup {key} |-> IF x = key THEN val ELSE d[x]]

\* parse_defines(..., default=1, ...): the int 1, not the string '1'
default == [kind |-> "int", val |-> <<"1">>]

-----------------------------------------------------------------------------
(* split_dot_or_dict_syntax *)

\* Flush without its `if cur:` guard
Flush_KeepsEmpty(res, cur) == Append(res, cur)

\* `if cur: result.append(cur); cur = ''` -- the list after the flush
Flush(res, cur) == IF cur # <<>> THEN Append(res, cur) ELSE res

RECURSIVE LexLoop(_, _, _, _, _)
LexLoop(e, i, res, cur, nested) ==
    IF i > Len(e) THEN [result |-> res, cur |-> cur, nested |-> nested]
    ELSE LET ch == e[i] IN
         IF ch = "." THEN
              IF nested # 0 THEN LexLoop(e, i + 1, res, Append(cur, ch), nested)
              ELSE LexLoop(e, i + 1, Flush(res, cur), <<>>, nested)
         ELSE IF ch = "[" THEN
              IF nested # 0 THEN LexLoop(e, i + 1, res, Append(cur, ch), nested + 1)
              ELSE LexLoop(e, i + 1, Flush(res, cur), <<>>, nested + 1)
         ELSE IF ch = "]" THEN
              IF nested - 1 # 0 THEN LexLoop(e, i + 1, res, Append(cur, ch), nested - 1)
              ELSE LexLoop(e, i + 1, Flush(res, cur), <<>>, nested - 1)
         ELSE LexLoop(e, i + 1, res, Append(cur, ch), nested)

split_dot_or_dict_syntax(e) ==
    LET s == LexLoop(e, 1, <<>>, <<>>, 0) IN
    IF s.nested # 0 THEN [exc |-> "AssertionError", result |-> <<>>]
    ELSE [exc |-> "none", result |-> Flush(s.result, s.cur)]

-----------------------------------------------------------------------------
(* _add *)

\* logger.debug(...) on the logger handed in: None has no attribute 'debug'
_add(target, key, val, lg) ==
    IF key \in DOMAIN target THEN
        IF target[key].kind # "list" THEN
            IF lg = "None"
            THEN [target |-> target, exc |-> "AttributeError", log |-> <<>>]
            ELSE [target |-> Put(target, key, PyList(<<target[key], val>>)),
                  exc |-> "none", log |-> <<"LeafToList", "LeafAdded">>]
        ELSE [target |-> Put(target, key, PyList(Append(target[key].val, val))),
              exc |-> "none", log |-> <<>>]
    ELSE
        IF lg = "None"
        THEN [target |-> Put(target, key, val), exc |-> "AttributeError", log |-> <<>>]
        ELSE [target |-> Put(target, key, val), exc |-> "none", log |-> <<"LeafSet">>]

-----------------------------------------------------------------------------
(* parse_defines *)

\* `if logger: logger.warning(...)`
Warning(lg, msg) == IF lg # "None" THEN <<msg>> ELSE <<>>

\* FirstEq splitting at the last '=' instead of the first
FirstEq_Last(kv) == CHOOSE i \in 1..Len(kv) : kv[i] = "=" /\ \A j \in (i + 1)..Len(kv) : kv[j] # "="

\* kv.split('=', 1)
HasEq(kv) == \E i \in 1..Len(kv) : kv[i] = "="
FirstEq(kv) == CHOOSE i \in 1..Len(kv) : kv[i] = "=" /\ \A j \in 1..(i - 1) : kv[j] # "="
KeyOf(kv) == IF HasEq(kv) THEN SubSeq(kv, 1, FirstEq(kv) - 1) ELSE kv
ValueOf(kv) == IF HasEq(kv) THEN PyStr(SubSeq(kv, FirstEq(kv) + 1, Len(kv))) ELSE default

\* OnLeaf with the `lengthen` branch lost: the leaf always wins
OnLeaf_NeverLengthens(target, h, lngth, lg) ==
    [target |-> target, ok |-> FALSE, log |-> Warning(lg, "IgnoredOverwrite")]

\* OnLeaf with the `else` branch lost: the leaf is always overwritten
OnLeaf_AlwaysLengthens(target, h, lngth, lg) ==
    [target |-> Put(target, h, PyDict(NoEntries)), ok |-> TRUE,
     log |-> Warning(lg, "OverwriteLeaf")]

\* OnLeaf with `target[h] = {}` moved before the test of `lengthen`
OnLeaf_ReplacesBeforeTest(target, h, lngth, lg) ==
    [target |-> Put(target, h, PyDict(NoEntries)), ok |-> lngth,
     log |-> Warning(lg, IF lngth THEN "OverwriteLeaf" ELSE "IgnoredOverwrite")]

\* a head component holds a non-dict: the branch on `lengthen`
OnLeaf(target, h, lngth, lg) ==
    IF lngth
    THEN [target |-> Put(target, h, PyDict(NoEntries)), ok |-> TRUE,
          log |-> Warning(lg, "OverwriteLeaf")]
    ELSE [target |-> target, ok |-> FALSE, log |-> Warning(lg, "IgnoredOverwrite")]

\* `if ok:` -- the assignment of the tail component
AssignTail(target, tail, v, shrt, lg) ==
    IF tail \in DOMAIN target /\ target[tail].kind = "dict" THEN
        IF shrt
        THEN [target |-> Put(target, tail, v), exc |-> "none",
              log |-> Warning(lg, "PruneSubtree")]
        ELSE [target |-> target, exc |-> "none", log |-> Warning(lg, "IgnoredPrune")]
    ELSE _add(target, tail, v, lg)

\* `for n, h in enumerate(head)` followed by `if ok:`; n is the position of
\* the component being visited, the tail being path[Len(path)].  The dicts are
\* mutated in place in the source: here every level hands its updated dict
\* back to its parent.
RECURSIVE Descend(_, _, _, _, _, _, _)
Descend(target, path, n, v, lngth, shrt, lg) ==
    IF n = Len(path) THEN AssignTail(target, path[n], v, shrt, lg)
    ELSE LET h == path[n]
             t1 == IF h \notin DOMAIN target
                   THEN Put(target, h, PyDict(NoEntries)) ELSE target
             c == IF t1[h].kind # "dict"
                  THEN OnLeaf(t1, h, lngth, lg)
                  ELSE [target |-> t1, ok |-> TRUE, log |-> <<>>]
         IN  IF ~c.ok THEN [target |-> c.target, exc |-> "none", log |-> c.log]
             ELSE LET sub == Descend(c.target[h].val, path, n + 1, v, lngth, shrt, lg)
                  IN  [target |-> Put(c.target, h, PyDict(sub.target)),
                       exc |-> sub.exc, log |-> c.log \o sub.log]

\* the key _add is called with when the key has one component
ShortcutKey(k, path) == k

\* one pass of `for kv in defs`
Iteration(res, kv, lngth, shrt, lg) ==
    LET k == KeyOf(kv)
        v == ValueOf(kv)
        lexed == split_dot_or_dict_syntax(k)
        path == lexed.result
    IN  IF lexed.exc # "none" THEN [target |-> res, exc |-> lexed.exc, log |-> <<>>]
        ELSE IF Len(path) = 1 THEN _add(res, ShortcutKey(k, path), v, lg)
        ELSE IF Len(path) = 0 THEN [target |-> res, exc |-> "IndexError", log |-> <<>>]
        ELSE Descend(res, path, 1, v, lngth, shrt, lg)

\* the whole function: the returned dict, or the exception that leaves it
RECURSIVE RunLoop(_, _, _, _, _, _)
RunLoop(res, ds, i, lngth, shrt, lg) ==
    IF i > Len(ds) THEN [exc |-> "none", result |-> res]
    ELSE LET r == Iteration(res, ds[i], lngth, shrt, lg) IN
         IF r.exc # "none" THEN [exc |-> r.exc, result |-> NoEntries]
         ELSE RunLoop(r.target, ds, i + 1, lngth, shrt, lg)

parse_defines(ds, lngth, shrt, lg) == RunLoop(NoEntries, ds, 1, lngth, shrt, lg)

-----------------------------------------------------------------------------
(* Inputs *)

\* keys of the defines handed to parse_defines
DefKeys == { <<"a">>, <<"a", ".", "b">>, <<"a", ".", "b", ".", "c">>,
             <<"[", "a", "]">>, <<"a", "[", "b", "]">>, <<".">>, <<>>, <<"a", "[">> }
DefValues == { <<>>, <<"=", "x">> }
\* two more defines: a key that closes a bracket before opening it, and a
\* value with a second '='
MoreDefines == { <<"]", "[">>, <<"a", "=", "x", "=", "y">> }
Defines == { k \o s : k \in DefKeys, s \in DefValues } \cup MoreDefines

\* keys handed to the lexer on its own: every string up to MaxKeyLen
LexChars == {"a", ".", "[", "]"}
RECURSIVE StringsUpTo(_)
StringsUpTo(n) ==
    IF n = 0 THEN { <<>> }
    ELSE LET shorter == StringsUpTo(n - 1) IN
         shorter \cup { Append(s, c) : s \in shorter, c \in LexChars }
LexKeys == StringsUpTo(MaxKeyLen)

-----------------------------------------------------------------------------
(* parse_defines as a state machine: one step per element of `defs` *)

Init ==
    /\ defs = <<>>
    /\ result = NoEntries
    /\ lengthen \in BOOLEAN
    /\ shorten \in BOOLEAN
    /\ logger \in {"logging", "None"}
    /\ log = <<>>
    /\ pc = "loop"
    /\ exc = "none"
    /\ expr = <<>>
    /\ ks = <<>>

\* the loop body runs on the next element of `defs`
Iterate ==
    /\ pc = "loop"
    /\ Len(defs) < MaxDefs
    /\ \E kv \in Defines :
        LET r == Iteration(result, kv, lengthen, shorten, logger) IN
        /\ defs' = Append(defs, kv)
        /\ result' = r.target
        /\ log' = r.log
        /\ exc' = r.exc
        /\ pc' = IF r.exc # "none" THEN "raised" ELSE "loop"
    /\ UNCHANGED <<lengthen, shorten, logger, expr, ks>>

\* `defs` is exhausted: return result
Return ==
    /\ pc = "loop"
    /\ pc' = "returned"
    /\ UNCHANGED <<defs, result, lengthen, shorten, logger, log, exc, expr, ks>>

Next == Iterate \/ Return

Spec == Init /\ [][Next]_vars

-----------------------------------------------------------------------------
(* split_dot_or_dict_syntax called on its own *)

LexInit ==
    /\ defs = <<>>
    /\ result = NoEntries
    /\ lengthen = TRUE
    /\ shorten = FALSE
    /\ logger = "logging"
    /\ log = <<>>
    /\ pc = "lex"
    /\ exc = "none"
    /\ expr \in LexKeys
    /\ ks = <<>>

Split ==
    /\ pc = "lex"
    /\ LET r == split_dot_or_dict_syntax(expr) IN
        /\ ks' = r.result
        /\ exc' = r.exc
    /\ pc' = "lexed"
    /\ UNCHANGED <<defs, result, lengthen, shorten, logger, log, expr>>

LexNext == Split

LexSpec == LexInit /\ [][LexNext]_vars

-----------------------------------------------------------------------------
(* Vocabulary of the properties *)

\* brackets properly nested and closed: no prefix closes more than it opened,
\* and the whole key closes all it opened
Depth(e, i) == Cardinality({j \in 1..i : e[j] = "["}) - Cardinality({j \in 1..i : e[j] = "]"})
Balanced(e) == Depth(e, Len(e)) = 0 /\ \A i \in 1..Len(e) : Depth(e, i) >= 0

Absent == [kind |-> "absent", val |-> <<>>]
IsScalar(node) == node.kind \in {"str", "int"}
IsLeaf(node) == node.kind \in {"str", "int", "list"}
IsMap(node) == node.kind = "dict"

\* the node a key path addresses in a tree, Absent if there is none
RECURSIVE AtFrom(_, _, _)
AtFrom(d, path, n) ==
    IF path[n] \notin DOMAIN d THEN Absent
    ELSE IF n = Len(path) THEN d[path[n]]
    ELSE IF d[path[n]].kind = "dict" THEN AtFrom(d[path[n]].val, path, n + 1)
    ELSE Absent
At(d, path) == IF path = <<>> THEN PyDict(d) ELSE AtFrom(d, path, 1)

\* every node of a tree, list elements included
RECURSIVE Nodes(_)
Nodes(node) ==
    {node} \cup
    (IF node.kind = "dict" THEN UNION { Nodes(node.val[x]) : x \in DOMAIN node.val }
     ELSE IF node.kind = "list" THEN UNION { Nodes(node.val[i]) : i \in DOMAIN node.val }
     ELSE {})

\* every key path that addresses a node of a tree
RECURSIVE Paths(_)
Paths(d) ==
    UNION { {<<x>>} \cup (IF d[x].kind = "dict"
                          THEN { <<x>> \o q : q \in Paths(d[x].val) } ELSE {})
            : x \in DOMAIN d }

\* the define the last iteration ran on, its value and its lexed key
LastKv == defs[Len(defs)]
LastValue == ValueOf(LastKv)
LastLex == split_dot_or_dict_syntax(KeyOf(LastKv))
LastPath == LastLex.result

\* an iteration has just run, on a key the lexer accepted
Stepped == defs' # defs /\ LastLex'.exc = "none"

Prefix(path, n) == SubSeq(path, 1, n)

\* some head component of the path holds a leaf in tree d
HeadLeaf(d, path) == \E n \in 1..(Len(path) - 1) : IsLeaf(At(d, Prefix(path, n)))

-----------------------------------------------------------------------------
(* The lexer *)

\* C1: the lexer fails on every key whose brackets are not properly nested
\* and closed.
C1_UnbalancedKeyFails ==
    (pc = "lexed" /\ ~Balanced(expr)) => exc = "AssertionError"

\* C5: a non-empty key with balanced brackets lexes to at least one component.
C5_KeyPathNotEmpty ==
    (pc = "lexed" /\ expr # <<>> /\ Balanced(expr)) => (exc = "none" /\ Len(ks) >= 1)

\* The components a balanced key is made of, as intervals <<first, last>> of
\* the key: the maximal runs of depth-0 characters other than '.', '[', ']',
\* and the non-empty contents of the outermost bracket groups.
RunChar(e, i) == Depth(e, i - 1) = 0 /\ e[i] \notin {".", "[", "]"}
Runs(e) ==
    { seg \in (1..Len(e)) \X (1..Len(e)) :
        /\ seg[1] <= seg[2]
        /\ \A k \in seg[1]..seg[2] : RunChar(e, k)
        /\ seg[1] = 1 \/ ~RunChar(e, seg[1] - 1)
        /\ seg[2] = Len(e) \/ ~RunChar(e, seg[2] + 1) }
Groups(e) ==
    { seg \in (1..Len(e)) \X (1..Len(e)) :
        /\ seg[1] >= 2 /\ seg[1] <= seg[2]
        /\ e[seg[1] - 1] = "[" /\ Depth(e, seg[1] - 2) = 0
        /\ seg[2] < Len(e) /\ e[seg[2] + 1] = "]" /\ Depth(e, seg[2] + 1) = 0
        /\ \A k \in (seg[1] - 1)..seg[2] : Depth(e, k) >= 1 }
Segments(e) == Runs(e) \cup Groups(e)
NthSegment(e, n) ==
    CHOOSE seg \in Segments(e) : Cardinality({t \in Segments(e) : t[1] < seg[1]}) = n - 1
ExpectedComponents(e) ==
    [n \in 1..Cardinality(Segments(e)) |-> SubSeq(e, NthSegment(e, n)[1], NthSegment(e, n)[2])]

\* C11: a key with balanced brackets lexes to exactly its depth-0 runs and
\* the non-empty contents of its outermost bracket groups, verbatim and in
\* left-to-right order; no component is empty.
C11_ComponentsOfBalancedKey ==
    (pc = "lexed" /\ Balanced(expr)) =>
        /\ exc = "none"
        /\ ks = ExpectedComponents(expr)
        /\ \A i \in DOMAIN ks : ks[i] # <<>>

C11_Witness ==
    /\ pc = "lexed" /\ Balanced(expr) /\ exc = "none"
    /\ Len(ks) >= 2
    /\ \E i \in DOMAIN ks : \E j \in DOMAIN ks[i] : ks[i][j] = "."

-----------------------------------------------------------------------------
(* The builder *)

\* C2: an assignment whose whole path addresses a dict leaves the tree
\* unchanged when shorten is false, and puts the new scalar there when
\* shorten is true.
C2_ShortenStep ==
    (Stepped /\ IsMap(At(result, LastPath')) /\ LastPath' # <<>>) =>
        IF shorten THEN At(result', LastPath') = LastValue' ELSE result' = result
C2_ShortenPolicy == [][C2_ShortenStep]_vars

\* C3: every list in the tree has at least two elements, all of them scalars,
\* and a list that stays a list only grows at its end.
ListsWellFormed(d) ==
    \A node \in Nodes(PyDict(d)) :
        node.kind = "list" => (Len(node.val) >= 2 /\ \A i \in DOMAIN node.val : IsScalar(node.val[i]))
ListOrderKept ==
    \A p \in Paths(result) :
        (At(result, p).kind = "list" /\ At(result', p).kind = "list") =>
            /\ Len(At(result', p).val) >= Len(At(result, p).val)
            /\ SubSeq(At(result', p).val, 1, Len(At(result, p).val)) = At(result, p).val
C3_ListsOfScalars == [][ListsWellFormed(result') /\ ListOrderKept]_vars

\* C4: a build whose keys all have balanced brackets does not fail (stated
\* for builds that are given a logger).
C4_BalancedBuildCompletes ==
    (logger = "logging" /\ \A i \in 1..Len(defs) : Balanced(KeyOf(defs[i]))) => pc # "raised"

\* C6: a key that lexes to the single component c0 is merged at the root
\* entry c0: c0 is an entry afterwards and no other entry is new or changed.
C6_SingleComponentStep ==
    (Stepped /\ Len(LastPath') = 1) =>
        LET c0 == LastPath'[1] IN
        /\ c0 \in DOMAIN result'
        /\ \A x \in (DOMAIN result') \ {c0} : x \in DOMAIN result /\ result'[x] = result[x]
C6_SingleComponentAtRoot == [][C6_SingleComponentStep]_vars

\* C7: with lengthen true, an assignment through a head component that holds
\* a leaf turns that leaf into a dict holding only the next component, and
\* the whole path then holds the new value, a scalar.
C7_LengthenStep ==
    (Stepped /\ lengthen /\ HeadLeaf(result, LastPath')) =>
        /\ \A n \in 1..(Len(LastPath') - 1) :
              IsLeaf(At(result, Prefix(LastPath', n))) =>
                 /\ IsMap(At(result', Prefix(LastPath', n)))
                 /\ DOMAIN At(result', Prefix(LastPath', n)).val = {LastPath'[n + 1]}
        /\ At(result', LastPath') = LastValue'
        /\ IsScalar(At(result', LastPath'))
C7_LengthenOverwrites == [][C7_LengthenStep]_vars

C7_Witness ==
    /\ pc = "loop" /\ defs # <<>> /\ lengthen
    /\ "OverwriteLeaf" \in {log[i] : i \in DOMAIN log}
    /\ At(result, LastPath) = LastValue

\* C8: with lengthen false, an assignment through a head component that holds
\* a leaf leaves the whole tree as it was and the build goes on.
C8_NoLengthenStep ==
    (Stepped /\ ~lengthen /\ HeadLeaf(result, LastPath')) =>
        (result' = result /\ pc' = "loop")
C8_NoLengthenAborts == [][C8_NoLengthenStep]_vars

C8_Witness ==
    /\ pc = "loop" /\ defs # <<>> /\ ~lengthen
    /\ "IgnoredOverwrite" \in {log[i] : i \in DOMAIN log}
    /\ Len(LastPath) = 3
    /\ IsLeaf(At(result, Prefix(LastPath, 2)))

\* C9: an assignment that completes, to a path that holds nothing, puts the
\* scalar there; to a path that holds a scalar s, makes it the list [s, v];
\* to a path that holds a list, appends v to it.
C9_MergeStep ==
    (Stepped /\ pc' = "loop" /\ LastPath' # <<>> /\ ~HeadLeaf(result, LastPath')) =>
        LET old == At(result, LastPath')
            new == At(result', LastPath')
        IN  /\ old = Absent => new = LastValue'
            /\ IsScalar(old) => new = PyList(<<old, LastValue'>>)
            /\ old.kind = "list" => new = PyList(Append(old.val, LastValue'))
C9_MultiValueMerge == [][C9_MergeStep]_vars

\* C12: a define whose key has unbalanced brackets makes the build fail at
\* that define: it is the last one processed, and no tree is returned
\* (stated for builds that are given a logger).
C12_FailsAtFirstUnbalancedKey ==
    logger = "logging" =>
        \A i \in 1..Len(defs) :
            ~Balanced(KeyOf(defs[i])) =>
                (i = Len(defs) /\ pc = "raised" /\ exc = "AssertionError")

\* k and v are the key and the value of the define kv: with an '=' in kv, k
\* has no '=' and kv is k, '=', and the string v; without, k is kv and v is
\* the default, an int.
SplitOfDefine(kv, k, v) ==
    IF \E i \in DOMAIN kv : kv[i] = "="
    THEN /\ \A i \in DOMAIN k : k[i] # "="
         /\ v.kind = "str"
         /\ kv = k \o <<"=">> \o v.val
    ELSE k = kv /\ v = default
ValueOfDefine(kv, v) == \E n \in 0..Len(kv) : SplitOfDefine(kv, SubSeq(kv, 1, n), v)

\* C13: the leaf a define sets is named and valued by the split at the first
\* '=': a new root leaf has the text before it as key and all the text after
\* it as value, a new nested leaf has that value; without '=' the key is the
\* whole define and the value the default, unconverted.
C13_SplitStep ==
    (defs' # defs) =>
        /\ \A k \in (DOMAIN result') \ (DOMAIN result) :
              IsLeaf(result'[k]) => SplitOfDefine(LastKv', k, result'[k])
        /\ (log' = <<"LeafSet">> /\ Len(LastPath') >= 2) =>
              ValueOfDefine(LastKv', At(result', LastPath'))
C13_SplitAtFirstEq == [][C13_SplitStep]_vars

C13_Witness ==
    /\ pc = "loop" /\ Len(defs) = 1
    /\ Cardinality({i \in DOMAIN LastKv : LastKv[i] = "="}) = 2
    /\ DOMAIN result = {<<"a">>}
    /\ result[<<"a">>] = PyStr(<<"x", "=", "y">>)

\* C15: after every define that was processed to its end, no dict of the
\* tree other than the root is empty.
C15_NoEmptyMapBelowRoot ==
    pc \in {"loop", "returned"} =>
        \A x \in DOMAIN result : PyDict(NoEntries) \notin Nodes(result[x])

C15_Witness ==
    /\ pc = "loop" /\ defs # <<>>
    /\ log = <<"OverwriteLeaf", "LeafSet">>
    /\ Len(LastPath) = 3
    /\ IsMap(At(result, Prefix(LastPath, 2)))

\* C16: an assignment that completes changes only positions on its lexed
\* path: a position whose path is neither a prefix nor an extension of it
\* holds afterwards what it held before (nothing, if it held nothing).
IsPrefixOf(q, p) == Len(q) <= Len(p) /\ SubSeq(p, 1, Len(q)) = q
C16_FrameStep ==
    (Stepped /\ pc' = "loop") =>
        \A q \in Paths(result) \cup Paths(result') :
            (~IsPrefixOf(q, LastPath') /\ ~IsPrefixOf(LastPath', q)) =>
                At(result', q) = At(result, q)
C16_OnlyThePathChanges == [][C16_FrameStep]_vars

\* C10: the outcome of a build (the returned tree, or the exception) is the
\* one the same build has when run with the other choice of logger.
OtherLogger == IF logger = "None" THEN "logging" ELSE "None"
C10_LoggerDoesNotMatter ==
    pc \in {"returned", "raised"} =>
        LET other == parse_defines(defs, lengthen, shorten, OtherLogger) IN
        /\ other.exc = exc
        /\ exc = "none" => other.result = result

====
